---------------------------- MODULE Spec2Model ----------------------------
(***************************************************************************)
(* Model of director_analysis.py: load_data, analyze_directors,            *)
(* analyze_decades, the two visualize_* renderers and the driver main().   *)
(*                                                                         *)
(* Python strings that the code inspects character by character (director  *)
(* names, decade labels, file names) are sequences of one-character        *)
(* strings.  A Python dict is a sequence of [k, v] pairs with distinct     *)
(* keys, in insertion order.  Ratings are in tenths (82 stands for 8.2).   *)
(*                                                                         *)
(* Datasets follow the schema the program reads: every director has        *)
(* count_in_top1000, avg_rating_top1000 and decades; every decade label is *)
(* "unknown" or a string int() accepts.                                    *)
(***************************************************************************)
EXTENDS Integers, Sequences, FiniteSets, TLC

VARIABLES pc, platform, file, data, top_n, director, output_dir,
          top_directors, decades_data, saved, shown, stdout, stderr, calls,
          exit_code

vars == <<pc, platform, file, data, top_n, director, output_dir,
          top_directors, decades_data, saved, shown, stdout, stderr, calls,
          exit_code>>

(* ------------------------------ bounds -------------------------------- *)
MaxDirectors == 3
MaxCount == 2
MaxN == 4
MaxDecades == 3
MainDirectors == 2

(* ------------------------- Python values ------------------------------ *)
(* None where a string is expected (args.director without --director) and
   None where a list is expected (the result of analyze_decades) *)
NoneStr == <<"None">>

NoneList == <<[none |-> TRUE]>>

(* output_path=None *)
NonePath == [none |-> TRUE]

Range(s) == {s[i] : i \in 1..Len(s)}

Min(a, b) == IF a < b THEN a ELSE b

Max(a, b) == IF a > b THEN a ELSE b

Reverse(s) == [i \in 1..Len(s) |-> s[Len(s) + 1 - i]]

(* dict: k in d, d[k] *)
Has(d, key) == \E i \in 1..Len(d) : d[i].k = key

Get(d, key) == d[CHOOSE i \in 1..Len(d) : d[i].k = key].v

(* bool(x) for the values main() tests: None, "" and [] are falsy *)
TruthyStr(x) == x # NoneStr /\ x # <<>>

TruthyList(x) == x # NoneList /\ x # <<>>

(* str.replace(old, new) for one-character old and new *)
StrReplace(s, old, new) == [i \in 1..Len(s) |-> IF s[i] = old THEN new ELSE s[i]]

(* ------------------------------ int(str) ------------------------------ *)
Digits == {"0", "1", "2", "3", "4", "5", "6", "7", "8", "9"}

DigitVal(c) ==
    CASE c = "0" -> 0 [] c = "1" -> 1 [] c = "2" -> 2 [] c = "3" -> 3
      [] c = "4" -> 4 [] c = "5" -> 5 [] c = "6" -> 6 [] c = "7" -> 7
      [] c = "8" -> 8 [] c = "9" -> 9

RECURSIVE DecVal(_)
DecVal(s) ==
    IF s = <<>> THEN 0
    ELSE DecVal(SubSeq(s, 1, Len(s) - 1)) * 10 + DigitVal(s[Len(s)])

RECURSIVE Strip(_)
Strip(s) ==
    IF s = <<>> THEN s
    ELSE IF s[1] = " " THEN Strip(Tail(s))
    ELSE IF s[Len(s)] = " " THEN Strip(SubSeq(s, 1, Len(s) - 1))
    ELSE s

ValueError == "ValueError"

(* int(s): surrounding whitespace is ignored, one optional sign, then
   decimal digits; Python integers do not overflow *)
PyInt(s) ==
    LET t == Strip(s)
        signed == t # <<>> /\ t[1] \in {"+", "-"}
        body == IF signed THEN Tail(t) ELSE t
    IN  IF body = <<>> \/ ~(Range(body) \subseteq Digits) THEN ValueError
        ELSE IF signed /\ t[1] = "-" THEN 0 - DecVal(body)
        ELSE DecVal(body)

(* ------------------------------ list.sort ----------------------------- *)
(* insertion of x behind every element whose key is <= x.key: a stable
   ascending insertion into an ascending list of [key, val] *)
RECURSIVE InsertByKey(_, _)
InsertByKey(x, s) ==
    IF s = <<>> THEN <<x>>
    ELSE IF x.key < s[1].key THEN <<x>> \o s
    ELSE <<s[1]>> \o InsertByKey(x, Tail(s))

RECURSIVE StableSortAsc(_)
StableSortAsc(s) ==
    IF s = <<>> THEN <<>>
    ELSE InsertByKey(s[Len(s)], StableSortAsc(SubSeq(s, 1, Len(s) - 1)))

Undecorate(s) == [i \in 1..Len(s) |-> s[i].val]

(* the list left in insertion order *)
PySort_unsorted(s) == Undecorate(s)

(* list.sort(key=..., reverse=False) over the decorated list *)
PySort(s) == Undecorate(StableSortAsc(s))

(* descending order obtained by sorting ascending and reversing the result,
   which turns the order of equal keys around *)
PySortReverse_unstable(s) == Undecorate(Reverse(StableSortAsc(s)))

(* list.sort(key=..., reverse=True): the list is reversed, sorted by the
   stable ascending sort and reversed again, so equal keys keep their order *)
PySortReverse(s) == Undecorate(Reverse(StableSortAsc(Reverse(s))))

(* list[:n] *)
PySlice(s, n) ==
    IF n >= 0 THEN SubSeq(s, 1, Min(n, Len(s)))
    ELSE SubSeq(s, 1, Max(Len(s) + n, 0))

(* --------------------------- analyze_directors ------------------------ *)
(* the filter taken as count_in_top1000 >= 0 *)
RECURSIVE directors_list_nonneg(_)
directors_list_nonneg(d) ==
    IF d = <<>> THEN <<>>
    ELSE LET info == d[1].v
             rest == directors_list_nonneg(Tail(d))
         IN  IF info.count_in_top1000 >= 0
             THEN <<[name |-> d[1].k,
                     count |-> info.count_in_top1000,
                     avg_rating |-> info.avg_rating_top1000]>> \o rest
             ELSE rest

RECURSIVE directors_list(_)
directors_list(d) ==
    IF d = <<>> THEN <<>>
    ELSE LET info == d[1].v
             rest == directors_list(Tail(d))
         IN  IF info.count_in_top1000 > 0
             THEN <<[name |-> d[1].k,
                     count |-> info.count_in_top1000,
                     avg_rating |-> info.avg_rating_top1000]>> \o rest
             ELSE rest

ByCount(l) == [i \in 1..Len(l) |-> [key |-> l[i].count, val |-> l[i]]]

analyze_directors(d, n) == PySlice(PySortReverse(ByCount(directors_list(d))), n)

(* ---------------------------- analyze_decades ------------------------- *)
Unknown == <<"u", "n", "k", "n", "o", "w", "n">>

(* the filter taken as int(decade) >= 0 *)
RECURSIVE decades_list_nonneg(_)
decades_list_nonneg(decades) ==
    IF decades = <<>> THEN <<>>
    ELSE LET decade == decades[1].k
             info == decades[1].v
             rest == decades_list_nonneg(Tail(decades))
         IN  IF decade # Unknown /\ PyInt(decade) >= 0
             THEN <<[decade |-> decade,
                     count |-> info.count,
                     avg_rating |-> IF "avg_rating" \in DOMAIN info
                                    THEN info.avg_rating ELSE 0]>> \o rest
             ELSE rest

(* a decade without avg_rating left out instead of defaulted to 0 *)
RECURSIVE decades_list_rated(_)
decades_list_rated(decades) ==
    IF decades = <<>> THEN <<>>
    ELSE LET decade == decades[1].k
             info == decades[1].v
             rest == decades_list_rated(Tail(decades))
         IN  IF decade # Unknown /\ PyInt(decade) > 0 /\ "avg_rating" \in DOMAIN info
             THEN <<[decade |-> decade,
                     count |-> info.count,
                     avg_rating |-> info.avg_rating]>> \o rest
             ELSE rest

RECURSIVE decades_list(_)
decades_list(decades) ==
    IF decades = <<>> THEN <<>>
    ELSE LET decade == decades[1].k
             info == decades[1].v
             rest == decades_list(Tail(decades))
         IN  IF decade # Unknown /\ PyInt(decade) > 0
             THEN <<[decade |-> decade,
                     count |-> info.count,
                     avg_rating |-> IF "avg_rating" \in DOMAIN info
                                    THEN info.avg_rating ELSE 0]>> \o rest
             ELSE rest

ByDecade(l) == [i \in 1..Len(l) |-> [key |-> PyInt(l[i].decade), val |-> l[i]]]

analyze_decades(d, name) ==
    IF ~Has(d, name) THEN NoneList
    ELSE PySort(ByDecade(decades_list(Get(d, name).decades)))

(* analyze_decades returning None without a message *)
analyze_decades_out_silent(d, name) == <<>>

(* what analyze_decades prints *)
analyze_decades_out(d, name) ==
    IF ~Has(d, name) THEN <<"director_not_found">> ELSE <<>>

(* ------------------------------ os.path ------------------------------- *)
(* os.sep and os.altsep of the platform the interpreter runs on *)
IsSep(c) == c = "/" \/ (platform = "nt" /\ c = "\\")

RECURSIVE LastSep(_)
LastSep(s) ==
    IF s = <<>> THEN 0
    ELSE IF IsSep(s[Len(s)]) THEN Len(s)
    ELSE LastSep(SubSeq(s, 1, Len(s) - 1))

(* os.path.join(dir, name), kept as the directory given on the command
   line, the sub-directory part of name and its last component *)
PathJoin(dir, name) ==
    [dir |-> dir,
     sub |-> SubSeq(name, 1, LastSep(name) - 1),
     base |-> SubSeq(name, LastSep(name) + 1, Len(name))]

TopDirectorsPng ==
    <<"t", "o", "p", "_", "d", "i", "r", "e", "c", "t", "o", "r", "s", ".", "p", "n", "g">>

DecadesPng == <<"_", "d", "e", "c", "a", "d", "e", "s", ".", "p", "n", "g">>

safe_name(name) == StrReplace(StrReplace(name, " ", "_"), "/", "_")

decade_file(name) == safe_name(name) \o DecadesPng


(* --------------------------- visualize_* ------------------------------ *)
(* the effect of a visualize_* call on the saved files, the shown charts
   and standard output *)
visualize_top_directors(directors_data, output_path) ==
    [saved |-> IF output_path # NonePath THEN saved \cup {output_path} ELSE saved,
     shown |-> shown \cup {"top_directors"},
     out   |-> IF output_path # NonePath THEN <<"saved">> ELSE <<>>]

visualize_director_decades(dd, director_name, output_path) ==
    IF ~TruthyList(dd)
    THEN [saved |-> saved, shown |-> shown, out |-> <<>>]
    ELSE [saved |-> IF output_path # NonePath THEN saved \cup {output_path} ELSE saved,
          shown |-> shown \cup {"director_decades"},
          out   |-> IF output_path # NonePath THEN <<"saved">> ELSE <<>>]

(* ------------------------------ inputs -------------------------------- *)
(* dicts of at most n entries with distinct keys from K and values from V *)
DictsOver(K, V, n) ==
    UNION { { d \in [1..m -> [k : K, v : V]] :
                \A i, j \in 1..m : i < j => d[i].k # d[j].k } : m \in 0..n }

NamePool == { <<"A">>, <<"B", " ", "C">>, <<"D", "/", "E">>, <<"F", "\\", "G">> }

LabelPool == { Unknown,
               <<"1", "9", "9", "0">>, <<"0", "1", "9", "9", "0">>,
               <<"2", "0", "0", "0">>, <<"0">>, <<"-", "1", "9", "9", "0">> }

StatPool == [count : {1, 2}] \cup [count : {1, 2}, avg_rating : {85}]

OutDir == <<"e", "x", "a", "m", "p", "l", "e", "s">>

TopNDefault == 15

(* datasets for analyze_directors *)
TopInfos == [count_in_top1000 : 0..MaxCount, avg_rating_top1000 : {70, 90},
             decades : {<<>>}]

TopDatasets == DictsOver(NamePool, TopInfos, MaxDirectors)

(* datasets for analyze_decades: one director with up to MaxDecades decades *)
DecadeInfos == [count_in_top1000 : {2}, avg_rating_top1000 : {82},
                decades : DictsOver(LabelPool, StatPool, MaxDecades)]

DecadeDatasets == DictsOver({<<"A">>}, DecadeInfos, 1)

(* datasets for a whole run *)
MainInfos ==
    { [count_in_top1000 |-> 0, avg_rating_top1000 |-> 0, decades |-> <<>>],
      [count_in_top1000 |-> 2, avg_rating_top1000 |-> 82,
       decades |-> <<[k |-> Unknown, v |-> [count |-> 2]]>>],
      [count_in_top1000 |-> 1, avg_rating_top1000 |-> 75,
       decades |-> <<[k |-> <<"0">>, v |-> [count |-> 1, avg_rating |-> 75]]>>],
      [count_in_top1000 |-> 2, avg_rating_top1000 |-> 90,
       decades |-> <<[k |-> Unknown, v |-> [count |-> 1]],
                     [k |-> <<"2", "0", "0", "0">>, v |-> [count |-> 1, avg_rating |-> 85]],
                     [k |-> <<"1", "9", "9", "0">>, v |-> [count |-> 1]]>>] }

MainDatasets == DictsOver(NamePool, MainInfos, MainDirectors)

FileKinds == {"ok", "missing", "bad_json", "unreadable", "bad_encoding"}

(* ------------------------------- main() ------------------------------- *)
Init ==
    /\ pc = "start"
    /\ platform \in {"posix", "nt"}
    /\ file \in FileKinds
    /\ data = <<>>
    /\ top_n \in {-1, 1, TopNDefault}
    /\ director \in {NoneStr, <<>>} \cup NamePool
    /\ output_dir \in {<<>>, OutDir}
    /\ top_directors = <<>>
    /\ decades_data = <<>>
    /\ saved = {}
    /\ shown = {}
    /\ stdout = <<>>
    /\ stderr = <<>>
    /\ calls = <<>>
    /\ exit_code = -1

(* load_data: json.load returns the mapping *)
LoadOk ==
    /\ pc = "start"
    /\ file = "ok"
    /\ \E d \in MainDatasets : data' = d
    /\ stdout' = stdout \o <<"loading", "loaded">>
    /\ calls' = calls \o <<"load_data">>
    /\ pc' = "loaded"
    /\ UNCHANGED <<platform, file, top_n, director, output_dir, top_directors,
                   decades_data, saved, shown, stderr, exit_code>>

(* load_data: except FileNotFoundError / except json.JSONDecodeError *)
LoadHandled ==
    /\ pc = "start"
    /\ file \in {"missing", "bad_json"}
    /\ stdout' = stdout \o <<"loading">> \o
                 (IF file = "missing" THEN <<"error_not_found", "hint_data_option">>
                  ELSE <<"error_invalid_json">>)
    /\ calls' = calls \o <<"load_data">>
    /\ exit_code' = 1
    /\ pc' = "exited"
    /\ UNCHANGED <<platform, file, data, top_n, director, output_dir,
                   top_directors, decades_data, saved, shown, stderr>>

(* load_data: open() raises PermissionError or IsADirectoryError, or the
   decoder raises UnicodeDecodeError; neither except clause matches, the
   exception leaves main() and the interpreter exits with status 1 *)
LoadUncaught ==
    /\ pc = "start"
    /\ file \in {"unreadable", "bad_encoding"}
    /\ stdout' = stdout \o <<"loading">>
    /\ stderr' = stderr \o <<"traceback">>
    /\ calls' = calls \o <<"load_data">>
    /\ exit_code' = 1
    /\ pc' = "exited"
    /\ UNCHANGED <<platform, file, data, top_n, director, output_dir,
                   top_directors, decades_data, saved, shown>>

load_data == LoadOk \/ LoadHandled \/ LoadUncaught

(* the top-directors analysis started without waiting for load_data *)
AnalyzeDirectors_unloaded ==
    /\ pc = "start"
    /\ stdout' = stdout \o <<"analyzing_top">>
    /\ calls' = calls \o <<"analyze_directors">>
    /\ top_directors' = analyze_directors(data, top_n)
    /\ pc' = "analyzed"
    /\ UNCHANGED <<platform, file, data, top_n, director, output_dir,
                   decades_data, saved, shown, stderr, exit_code>>

AnalyzeDirectors ==
    /\ pc = "loaded"
    /\ stdout' = stdout \o <<"analyzing_top">>
    /\ calls' = calls \o <<"analyze_directors">>
    /\ top_directors' = analyze_directors(data, top_n)
    /\ pc' = "analyzed"
    /\ UNCHANGED <<platform, file, data, top_n, director, output_dir,
                   decades_data, saved, shown, stderr, exit_code>>

VisualizeTopDirectors ==
    /\ pc = "analyzed"
    /\ LET output_path == IF TruthyStr(output_dir)
                          THEN PathJoin(output_dir, TopDirectorsPng)
                          ELSE NonePath
           r == visualize_top_directors(top_directors, output_path)
       IN  /\ saved' = r.saved
           /\ shown' = r.shown
           /\ stdout' = stdout \o r.out
    /\ calls' = calls \o <<"visualize_top_directors">>
    /\ pc' = "top_done"
    /\ UNCHANGED <<platform, file, data, top_n, director, output_dir,
                   top_directors, decades_data, stderr, exit_code>>

(* if args.director: is false, main() returns *)
NoDirector ==
    /\ pc = "top_done"
    /\ ~TruthyStr(director)
    /\ exit_code' = 0
    /\ pc' = "exited"
    /\ UNCHANGED <<platform, file, data, top_n, director, output_dir,
                   top_directors, decades_data, saved, shown, stdout, stderr,
                   calls>>

AnalyzeDecades ==
    /\ pc = "top_done"
    /\ TruthyStr(director)
    /\ stdout' = stdout \o <<"analyzing_decades">> \o analyze_decades_out(data, director)
    /\ calls' = calls \o <<"analyze_decades">>
    /\ decades_data' = analyze_decades(data, director)
    /\ pc' = "decades_analyzed"
    /\ UNCHANGED <<platform, file, data, top_n, director, output_dir,
                   top_directors, saved, shown, stderr, exit_code>>

VisualizeDirectorDecades ==
    /\ pc = "decades_analyzed"
    /\ TruthyList(decades_data)
    /\ LET decade_output_path == IF TruthyStr(output_dir)
                                 THEN PathJoin(output_dir, decade_file(director))
                                 ELSE NonePath
           r == visualize_director_decades(decades_data, director, decade_output_path)
       IN  /\ saved' = r.saved
           /\ shown' = r.shown
           /\ stdout' = stdout \o r.out
    /\ calls' = calls \o <<"visualize_director_decades">>
    /\ exit_code' = 0
    /\ pc' = "exited"
    /\ UNCHANGED <<platform, file, data, top_n, director, output_dir,
                   top_directors, decades_data, stderr>>

NoDecadeData ==
    /\ pc = "decades_analyzed"
    /\ ~TruthyList(decades_data)
    /\ stdout' = stdout \o <<"no_decade_data">>
    /\ exit_code' = 0
    /\ pc' = "exited"
    /\ UNCHANGED <<platform, file, data, top_n, director, output_dir,
                   top_directors, decades_data, saved, shown, stderr, calls>>

Next ==
    \/ load_data
    \/ AnalyzeDirectors
    \/ VisualizeTopDirectors
    \/ NoDirector
    \/ AnalyzeDecades
    \/ VisualizeDirectorDecades
    \/ NoDecadeData

Spec == Init /\ [][Next]_vars

(* ------------- analyze_directors on its own: the state after load ----- *)
InitTop ==
    /\ pc = "loaded"
    /\ platform = "posix"
    /\ file = "ok"
    /\ data \in TopDatasets
    /\ top_n \in -2..MaxN
    /\ director = NoneStr
    /\ output_dir = OutDir
    /\ top_directors = <<>>
    /\ decades_data = <<>>
    /\ saved = {}
    /\ shown = {}
    /\ stdout = <<"loading", "loaded">>
    /\ stderr = <<>>
    /\ calls = <<"load_data">>
    /\ exit_code = -1

NextTop == AnalyzeDirectors

SpecTop == InitTop /\ [][NextTop]_vars

(* ------ analyze_decades on its own: the state after the first chart --- *)
InitDecades ==
    /\ pc = "top_done"
    /\ platform = "posix"
    /\ file = "ok"
    /\ data \in DecadeDatasets
    /\ top_n = TopNDefault
    /\ director \in {<<"A">>, <<"B", " ", "C">>}
    /\ output_dir = OutDir
    /\ top_directors = analyze_directors(data, top_n)
    /\ decades_data = <<>>
    /\ saved = {PathJoin(output_dir, TopDirectorsPng)}
    /\ shown = {"top_directors"}
    /\ stdout = <<"loading", "loaded", "analyzing_top", "saved">>
    /\ stderr = <<>>
    /\ calls = <<"load_data", "analyze_directors", "visualize_top_directors">>
    /\ exit_code = -1

NextDecades == AnalyzeDecades \/ VisualizeDirectorDecades \/ NoDecadeData

SpecDecades == InitDecades /\ [][NextDecades]_vars

(* ============================ properties ============================== *)
(* position of a key in the mapping's insertion order *)
Pos(d, key) == CHOOSE i \in 1..Len(d) : d[i].k = key

Qualifying(d) == {i \in 1..Len(d) : d[i].v.count_in_top1000 > 0}

EntryOf(d, i) == [name |-> d[i].k, count |-> d[i].v.count_in_top1000,
                  avg_rating |-> d[i].v.avg_rating_top1000]

Returned(l) == {l[i] : i \in 1..Len(l)}

(* C1: top_directors(data, n) returns at most n entries, each of a director
   with count_in_top1000 > 0, sorted non-increasing by count. *)
C1_AtMostNPositiveSorted ==
    pc = "analyzed" =>
        /\ Len(top_directors) <= Max(top_n, 0)
        /\ \A i \in 1..Len(top_directors) :
              /\ Has(data, top_directors[i].name)
              /\ Get(data, top_directors[i].name).count_in_top1000 > 0
        /\ \A i, j \in 1..Len(top_directors) :
              i < j => top_directors[i].count >= top_directors[j].count

(* C2: returned directors with equal count keep the insertion order of the
   mapping, and a director with that count that n cuts off comes later in
   insertion order than every returned director with that count. *)
C2_StableTieBreak ==
    pc = "analyzed" =>
        /\ \A i, j \in 1..Len(top_directors) :
              (i < j /\ top_directors[i].count = top_directors[j].count)
                => Pos(data, top_directors[i].name) < Pos(data, top_directors[j].name)
        /\ \A q \in Qualifying(data) : \A i \in 1..Len(top_directors) :
              (EntryOf(data, q) \notin Returned(top_directors)
                 /\ top_directors[i].count = data[q].v.count_in_top1000)
                => Pos(data, top_directors[i].name) < q

C2_Witness ==
    /\ pc = "analyzed"
    /\ top_n >= 2
    /\ Len(top_directors) >= 2
    /\ top_directors[Len(top_directors) - 1].count = top_directors[Len(top_directors)].count
    /\ \E q \in Qualifying(data) :
          /\ EntryOf(data, q) \notin Returned(top_directors)
          /\ data[q].v.count_in_top1000 = top_directors[Len(top_directors)].count

(* C3: when fewer than n directors qualify, the result is exactly the
   qualifying directors: one entry each with the director's name, count and
   average rating, no duplicates, no padding. *)
C3_AllQualifyingWhenFewer ==
    (pc = "analyzed" /\ Cardinality(Qualifying(data)) < top_n) =>
        /\ Returned(top_directors) = {EntryOf(data, q) : q \in Qualifying(data)}
        /\ Len(top_directors) = Cardinality(Qualifying(data))

C3_Witness ==
    /\ pc = "analyzed"
    /\ Cardinality(Qualifying(data)) >= 2
    /\ Cardinality(Qualifying(data)) < top_n
    /\ Cardinality(Qualifying(data)) < Len(data)
    /\ Len(top_directors) = Cardinality(Qualifying(data))

(* the decade entries of a director that can be analysed: label other than
   "unknown" with a numeric value above 0 *)
Analyzable(decades) ==
    {i \in 1..Len(decades) : decades[i].k # Unknown /\ PyInt(decades[i].k) > 0}

DecadeEntryOf(decades, i) ==
    [decade |-> decades[i].k,
     count |-> decades[i].v.count,
     avg_rating |-> IF "avg_rating" \in DOMAIN decades[i].v
                    THEN decades[i].v.avg_rating ELSE 0]

DecadesReturned ==
    pc \in {"decades_analyzed", "exited"} /\ Has(data, director)

(* C4 as stated: decades_for never returns "unknown" or a decade <= 0, and
   the entries are sorted strictly ascending by numeric decade. *)
C4_StrictlyAscending ==
    DecadesReturned =>
        /\ \A i \in 1..Len(decades_data) :
              decades_data[i].decade # Unknown /\ PyInt(decades_data[i].decade) > 0
        /\ \A i, j \in 1..Len(decades_data) :
              i < j => PyInt(decades_data[i].decade) < PyInt(decades_data[j].decade)

(* C4 amended: decades_for never returns "unknown" or a decade <= 0; the
   entries are sorted non-decreasing by numeric decade, and strictly
   ascending whenever no two analyzable labels of the director convert to
   the same integer. *)
C4_AscendingByValue ==
    DecadesReturned =>
        /\ \A i \in 1..Len(decades_data) :
              decades_data[i].decade # Unknown /\ PyInt(decades_data[i].decade) > 0
        /\ \A i, j \in 1..Len(decades_data) :
              i < j => PyInt(decades_data[i].decade) <= PyInt(decades_data[j].decade)
        /\ LET ds == Get(data, director).decades
           IN  (\A a, b \in Analyzable(ds) : a # b => PyInt(ds[a].k) # PyInt(ds[b].k))
                 => \A i, j \in 1..Len(decades_data) :
                       i < j => PyInt(decades_data[i].decade) < PyInt(decades_data[j].decade)

C4_Witness ==
    /\ DecadesReturned
    /\ Len(decades_data) = 2
    /\ PyInt(decades_data[1].decade) = PyInt(decades_data[2].decade)
    /\ Len(Get(data, director).decades) = 3
    /\ Get(data, director).decades[1].k # Unknown

(* C9: for a director in the mapping, decades_for returns exactly one entry
   per analyzable decade label, each with the label, that decade's count and
   its avg_rating, or 0 when avg_rating is absent. *)
C9_OneEntryPerAnalyzableDecade ==
    DecadesReturned =>
        LET ds == Get(data, director).decades
        IN  /\ Returned(decades_data) = {DecadeEntryOf(ds, i) : i \in Analyzable(ds)}
            /\ Len(decades_data) = Cardinality(Analyzable(ds))

C9_Witness ==
    /\ DecadesReturned
    /\ Len(decades_data) = 2
    /\ Len(Get(data, director).decades) = 3
    /\ \E i \in 1..3 : "avg_rating" \notin DOMAIN Get(data, director).decades[i].v
                        /\ i \in Analyzable(Get(data, director).decades)
    /\ \E i \in 1..2 : decades_data[i].avg_rating # 0

(* ------------------------------ whole run ----------------------------- *)
Loaded == file = "ok" /\ pc # "start"

TopPath == PathJoin(output_dir, TopDirectorsPng)

(* a director name was given on the command line; the empty string counts
   as no name, as it does for main() *)
DirectorGiven == director # NoneStr /\ director # <<>>

(* C5: with a director name that is absent from the mapping, decades_for
   returns an empty/nil result and a diagnostic is printed, no decade chart
   is rendered, and the run completes with exit code 0 after the
   top-directors chart was produced. *)
C5_AbsentDirectorIsAWarning ==
    (Loaded /\ DirectorGiven /\ ~Has(data, director)) =>
        /\ "director_decades" \notin shown
        /\ saved \subseteq {TopPath}
        /\ "visualize_director_decades" \notin Range(calls)
        /\ "analyze_decades" \in Range(calls) =>
              /\ decades_data \in {NoneList, <<>>}
              /\ "director_not_found" \in Range(stdout)
        /\ pc = "exited" =>
              /\ exit_code = 0
              /\ "analyze_decades" \in Range(calls)
              /\ "top_directors" \in shown

C5_Witness ==
    /\ Loaded /\ DirectorGiven /\ ~Has(data, director)
    /\ data # <<>>
    /\ pc = "exited"
    /\ "director_not_found" \in Range(stdout)

(* C6: whenever the path is not a readable file or the content is not
   well-formed JSON, load_data prints a user-facing message, the process
   ends with a non-zero status, and nothing is analysed or rendered. *)
C6_LoadFailureIsReported ==
    (file # "ok" /\ pc = "exited") =>
        /\ \E m \in Range(stdout) : m \in {"error_not_found", "error_invalid_json"}
        /\ exit_code > 0
        /\ Range(calls) = {"load_data"}
        /\ shown = {} /\ saved = {}

(* C7: with an output directory, after a run that loaded, the saved files
   are top_directors.png and, exactly when a director was named, is in the
   mapping and has an analyzable decade, <safe name>_decades.png. *)
C7_SavedArtifacts ==
    (Loaded /\ pc = "exited" /\ TruthyStr(output_dir)) =>
        saved = {TopPath} \cup
                (IF /\ director # NoneStr
                    /\ Has(data, director)
                    /\ Analyzable(Get(data, director).decades) # {}
                 THEN {PathJoin(output_dir, decade_file(director))}
                 ELSE {})

(* a named director in the mapping whose decades are all unknown or <= 0 *)
C7_Witness ==
    /\ Loaded /\ pc = "exited" /\ TruthyStr(output_dir)
    /\ DirectorGiven /\ Has(data, director)
    /\ Get(data, director).decades # <<>>
    /\ Analyzable(Get(data, director).decades) = {}
    /\ saved = {TopPath}

IsAnalysis(c) == c \in {"analyze_directors", "analyze_decades"}

IsRender(c) == c \in {"visualize_top_directors", "visualize_director_decades"}

(* C8 as stated: no analysis step starts before loading has completed and
   no analysis step occurs after a render step has started. *)
C8_LoadAnalyzeRender ==
    \A j \in 1..Len(calls) :
        IsAnalysis(calls[j]) =>
            /\ j > 1 /\ calls[1] = "load_data" /\ file = "ok"
            /\ \A i \in 1..(j - 1) : ~IsRender(calls[i])

(* C8 amended: no analysis or render step starts before loading has
   completed; each view is rendered only after that view's analysis; the
   only analysis step after a render step is the decade analysis, which
   follows the rendering of the top-directors chart. *)
C8_LoadThenEachViewInTurn ==
    /\ \A j \in 1..Len(calls) :
          (IsAnalysis(calls[j]) \/ IsRender(calls[j])) =>
              j > 1 /\ calls[1] = "load_data" /\ file = "ok"
    /\ \A j \in 1..Len(calls) :
          /\ calls[j] = "visualize_top_directors" =>
                \E i \in 1..(j - 1) : calls[i] = "analyze_directors"
          /\ calls[j] = "visualize_director_decades" =>
                \E i \in 1..(j - 1) : calls[i] = "analyze_decades"
    /\ \A i, j \in 1..Len(calls) :
          (i < j /\ IsRender(calls[i]) /\ IsAnalysis(calls[j])) =>
              calls[i] = "visualize_top_directors" /\ calls[j] = "analyze_decades"

C8_Witness ==
    /\ pc = "exited"
    /\ calls = <<"load_data", "analyze_directors", "visualize_top_directors",
                 "analyze_decades", "visualize_director_decades">>

(* the director name with every space and every path separator replaced *)
Sanitized(name) ==
    [i \in 1..Len(name) |-> IF name[i] = " " \/ IsSep(name[i]) THEN "_" ELSE name[i]]

(* C10: the decade chart's file name is the director name with every space
   and path separator replaced, followed by "_decades.png"; it holds no
   space and no path separator, so the file lies directly in the output
   directory. *)
C10_DecadeFileInsideOutputDir ==
    ("visualize_director_decades" \in Range(calls) /\ TruthyStr(output_dir)) =>
        /\ decade_file(director) = Sanitized(director) \o DecadesPng
        /\ \A c \in Range(decade_file(director)) : c # " " /\ ~IsSep(c)
        /\ \A p \in saved : p.dir = output_dir /\ p.sub = <<>>

=============================================================================
